---- MODULE Spec2Model ----
(***************************************************************************)
(* Model of zonedata-download/download.py: the CZDSDownloader run          *)
(* (czds_authenticate, get_zonefiles_list, fetch_zone, fetch, main).       *)
(* The remote service, the filesystem and the mail sink are the            *)
(* environment: every remote call and every file operation draws its       *)
(* outcome from the outcomes the code distinguishes.                       *)
(***************************************************************************)
EXTENDS Integers, Sequences, FiniteSets, TLC

VARIABLES
    pc,                 \* position of the single control-flow thread
    run,                \* number of the current invocation of main()
    configResult,       \* how loading the configuration ended in this run
    authPosts,          \* POSTs issued to the authentication endpoint in this run
    max_retries,        \* config item 'max_retries'
    which_zones,        \* config item 'zones' (default "all")
    remoteLinks,        \* the links the list endpoint serves: link -> times listed
    access_token,       \* self.access_token
    retries,            \* self.retries
    downloaded_zones,   \* self.downloaded_zones
    downloadable_zones, \* self.downloadable_zones
    zonelist,           \* local 'zonelist' of fetch()
    idx,                \* position of the for loop of fetch() in zonelist
    response,           \* local 'response' of get_with_token: the answer just received
    download,           \* local 'download' of fetch(): the response being stored
    chunksRead,         \* chunks of the response body consumed so far
    files,              \* output directory: zone name -> content, or NoFile
    msgs,               \* messages handed to send_msg (subject kind, text)
    summary,            \* the completion summary of main(), or NoSummary
    exit_code,          \* process exit status, or Running
    listGets,           \* GETs issued to the list endpoint in this run
    listResult,         \* how get_zonefiles_list ended in this run
    gets,               \* per target: GETs issued for it in this run
    outcome,            \* per target: how its loop iteration ended
    processed,          \* per target: loop iterations that called fetch_zone
    writes              \* open-for-write calls on zone files in this run

vars == <<pc, run, configResult, authPosts, max_retries, which_zones, remoteLinks, access_token, retries,
          downloaded_zones, downloadable_zones, zonelist, idx, response,
          download, chunksRead, files, msgs, summary, exit_code, listGets,
          listResult, gets, outcome, processed, writes>>

----------------------------------------------------------------------------
\* Bounds of the model

MaxRetries == 2
MaxListLen == 3
NumChunks == 2

----------------------------------------------------------------------------
\* Data

Range(s) == {s[i] : i \in 1..Len(s)}

\* URLs are sequences of characters; "/" separates the path segments.
URLS == { <<"a", "/", "c">>, <<"a", "/", "n">>, <<"o">> }

\* Index of the last "/" in url, 0 when there is none.
RECURSIVE LastSlash(_, _)
LastSlash(url, i) ==
    IF i = 0 THEN 0
    ELSE IF url[i] = "/" THEN i
    ELSE LastSlash(url, i - 1)

\* zone.split('/')[-1]
ZoneNameOf(url) ==
    LET k == LastSlash(url, Len(url))
    IN  SubSeq(url, k + 1, Len(url))

ZoneNames == {ZoneNameOf(u) : u \in URLS}

\* Values of the config item 'zones': the string "all" or a list of names.
ZoneConfigs ==
    { [kind |-> "str", val |-> "all", names |-> {}],
      [kind |-> "list", val |-> "", names |-> {}],
      [kind |-> "list", val |-> "", names |-> {<<"c">>}],
      [kind |-> "list", val |-> "", names |-> {<<"c">>, <<"n">>, <<"z">>}] }

\* The body the server serves for a target, as its sequence of chunks.
Payload(url) == [i \in 1..NumChunks |-> <<url, i>>]

NoFile == <<"absent">>
NoSummary == <<"none">>
Running == << >>
Exited(code) == <<code>>

BoundedSeqs(S, n) == UNION {[1..k -> S] : k \in 0..n}

\* The list endpoint serves a JSON array of links, a link possibly more than
\* once; the array of one answer holds them in some order.
Occurrences(s, u) == Cardinality({i \in 1..Len(s) : s[i] = u})
RemoteLinkSets ==
    {b \in [URLS -> 0..MaxListLen] :
        \E s \in BoundedSeqs(URLS, MaxListLen) : \A u \in URLS : Occurrences(s, u) = b[u]}
ListResponses(links) ==
    {s \in BoundedSeqs(URLS, MaxListLen) : \A u \in URLS : Occurrences(s, u) = links[u]}
Served == {u \in URLS : remoteLinks[u] > 0}

\* Responses of requests.get / requests.post as the code reads them.
GZIP == "application/x-gzip"
CTypes == {GZIP, "text/html", "absent"}
ErrStatuses == {403, 500}
TransportError == [status |-> 0, ctype |-> "absent"]
NoResponse == [status |-> -1, ctype |-> "absent"]
Responses ==
    {[status |-> 200, ctype |-> c] : c \in CTypes}
    \cup {[status |-> s, ctype |-> "text/html"] : s \in ErrStatuses}
    \cup {TransportError}

\* Responses of the JSON endpoints (authentication, list of links).
ApiResponses ==
    {[status |-> 200, ctype |-> "application/json"]}
    \cup {r \in Responses : r.status # 200}

\* Bodies of a 200 answer of the list endpoint: the JSON array, a JSON value
\* that is no sequence (list() raises), or a body that is not JSON at all.
ListBodies == {"array", "nonseq", "notjson"}

----------------------------------------------------------------------------
\* Helpers of the downloader

\* send_msg(msg, fail): the mail and stderr sink accepts the message.
SendMsg(text, fail) == msgs \cup {[fail |-> fail, text |-> text]}

\* get_with_token: a 200 response is returned, everything else is a GetError.
GetWithToken(resp) == IF resp.status = 200 THEN "ok" ELSE "GetError"

\* line 170: the list retrieval gives up when the counter is at the ceiling.
ListCeilingReached_early(r) == r + 1 >= max_retries
ListCeilingReached(r) == r = max_retries

\* line 202: the zone fetch gives up when the counter is at the ceiling.
ZoneCeilingReached_late(r) == r > max_retries
ZoneCeilingReached(r) == r = max_retries

\* lines 177-178: list(set(zonelist_response)); the order of a set is arbitrary.
DistinctLists_keepall(resp) == {resp}
DistinctLists(resp) ==
    LET S == Range(resp)
    IN  {s \in [1..Cardinality(S) -> S] : Range(s) = S}

\* line 237: which_zones == 'all' or zone_name in which_zones
Selected_everything(zone_name) == TRUE
Selected(zone_name) ==
    \/ which_zones.kind = "str" /\ which_zones.val = "all"
    \/ which_zones.kind = "list" /\ zone_name \in which_zones.names

\* lines 212-220: the Content-Type header must be present and be gzip.
ContentTypeError_never(resp) == "none"
ContentTypeError(resp) ==
    IF resp.ctype = "absent" THEN "did not return a content type"
    ELSE IF resp.ctype # GZIP THEN "Unsupported content type"
    ELSE "none"

\* The target of the current loop iteration and its output file name.
Zone == zonelist[idx]
ZoneName == ZoneNameOf(Zone)

SelectedTargets == {u \in Served : Selected(ZoneNameOf(u))}

----------------------------------------------------------------------------
\* Initial state: main() is about to construct the downloader (__init__); the
\* dated output directory holds no zone file yet.

ProcessInit ==
    /\ pc = "load_config"
    /\ configResult = "pending"
    /\ authPosts = 0
    /\ access_token = "None"
    /\ retries = 0
    /\ downloaded_zones = 0
    /\ downloadable_zones = 0
    /\ zonelist = << >>
    /\ idx = 0
    /\ download = NoResponse
    /\ chunksRead = 0
    /\ msgs = {}
    /\ summary = NoSummary
    /\ exit_code = Running
    /\ listGets = 0
    /\ listResult = "pending"
    /\ gets = [u \in URLS |-> 0]
    /\ response = NoResponse
    /\ outcome = [u \in URLS |-> "none"]
    /\ processed = [u \in URLS |-> 0]
    /\ writes = 0

Init ==
    /\ ProcessInit
    /\ run = 1
    /\ max_retries \in 0..MaxRetries
    /\ which_zones \in ZoneConfigs
    /\ remoteLinks \in RemoteLinkSets
    /\ files = [n \in ZoneNames |-> NoFile]

\* The same, with a list endpoint that serves no entry twice.
InitNoDuplicates ==
    /\ Init
    /\ \A u \in URLS : remoteLinks[u] <= 1

\* sys.exit(1) after send_msg(text): the process ends, nothing else changes.
FatalExit(text) ==
    /\ msgs' = SendMsg(text, TRUE)
    /\ exit_code' = Exited(1)
    /\ pc' = "exit"

----------------------------------------------------------------------------
\* __init__: load_config and the first get_config_item of a mandatory item
\* (prepare_download_folder, line 66).

\* What the configuration file can be: readable JSON with every mandatory
\* item, unreadable or not JSON, or JSON without a mandatory item.
ConfigFiles == {"ok", "unreadable", "missing_item"}

LoadConfig ==
    /\ pc = "load_config"
    /\ \E cfg \in ConfigFiles :
          /\ configResult' = cfg
          /\ CASE cfg = "ok" ->
                  /\ pc' = "authenticate"
                  /\ UNCHANGED <<msgs, exit_code>>
             [] cfg = "unreadable" ->
                  \* lines 51-53: the handler calls send_msg, whose first
                  \* get_config_item tests 'item not in self.config' with
                  \* self.config still None: a TypeError nobody catches ends
                  \* the process before any message is written.
                  /\ pc' = "exit"
                  /\ exit_code' = Exited(1)
                  /\ UNCHANGED msgs
             [] cfg = "missing_item" ->
                  \* lines 56-59
                  FatalExit("Could not find mandatory item in the configuration")
    /\ UNCHANGED <<run, authPosts, max_retries, which_zones, remoteLinks,
                   access_token, retries, downloaded_zones, downloadable_zones,
                   zonelist, idx, response, download, chunksRead, files,
                   summary, listGets, listResult, gets, outcome, processed,
                   writes>>

----------------------------------------------------------------------------
\* czds_authenticate: one POST, never repeated.

\* Bodies of a 200 answer of the authentication endpoint: JSON with an
\* 'accessToken' member, or anything else (line 87 raises, line 102 catches).
AuthBodies == {"token", "no_token"}

\* lines 89-104: every outcome but a 200 carrying a token ends the run.
AuthErrorHandler_noexit ==
    /\ msgs' = SendMsg("czds_authenticate failed", TRUE)
    /\ exit_code' = exit_code
    /\ pc' = "get_zonefiles_list"
AuthErrorHandler ==
    FatalExit("czds_authenticate failed")

Authenticate ==
    /\ pc = "authenticate"
    /\ authPosts' = authPosts + 1
    /\ \E resp \in ApiResponses, body \in AuthBodies :
          IF resp.status = 200 /\ body = "token"
          THEN /\ access_token' = "token"
               /\ pc' = "get_zonefiles_list"
               /\ UNCHANGED <<msgs, exit_code>>
          ELSE /\ AuthErrorHandler
               /\ UNCHANGED access_token
    /\ UNCHANGED <<run, configResult, max_retries, which_zones, remoteLinks,
                   retries, downloaded_zones, downloadable_zones, zonelist, idx,
                   response, download, chunksRead, files, summary, listGets,
                   listResult, gets, outcome, processed, writes>>

----------------------------------------------------------------------------
\* get_zonefiles_list, one pass of its while loop (line 163), together with
\* the handler of fetch() around it (lines 227-231).

\* lines 229-231: a CZDSError of get_zonefiles_list ends the run.
ListErrorHandler_noexit ==
    /\ msgs' = SendMsg("Unrecoverable error: could not obtain zonefiles list", TRUE)
    /\ exit_code' = exit_code
    /\ pc' = "loop"
ListErrorHandler ==
    FatalExit("Unrecoverable error: could not obtain zonefiles list")

\* get_with_token(zonelist_url), line 144: the GET is sent and answered.
ListGet ==
    /\ pc = "get_zonefiles_list"
    /\ retries <= max_retries
    /\ listGets' = listGets + 1
    /\ \E resp \in ApiResponses : response' = resp
    /\ pc' = "zonelist_response"
    /\ UNCHANGED <<run, configResult, authPosts, max_retries, which_zones, remoteLinks, access_token,
                   retries, downloaded_zones, downloadable_zones, zonelist, idx,
                   download, chunksRead, files, msgs, summary, exit_code,
                   listResult, gets, outcome, processed, writes>>

\* lines 145-157 and 166-189: the answer is turned into the list of targets,
\* a retry, or an error.
ListResponse ==
    /\ pc = "zonelist_response"
    /\ response' = NoResponse
    /\ IF GetWithToken(response) = "GetError"
       THEN IF ListCeilingReached(retries)
            THEN \* raise CZDSError("Maximum number of retries reached ...")
                 /\ listResult' = "exhausted"
                 /\ ListErrorHandler
                 /\ UNCHANGED <<retries, zonelist, idx, downloadable_zones>>
            ELSE /\ retries' = retries + 1
                 /\ pc' = "get_zonefiles_list"
                 /\ UNCHANGED <<msgs, exit_code, listResult, zonelist, idx,
                                downloadable_zones>>
       ELSE \E body \in ListBodies :
            CASE body = "notjson" ->
                 \* .json() raises; neither GetError nor CZDSError, so no
                 \* handler runs and the interpreter ends the process.
                 /\ listResult' = "crash"
                 /\ pc' = "exit"
                 /\ exit_code' = Exited(1)
                 /\ UNCHANGED <<msgs, retries, zonelist, idx, downloadable_zones>>
            [] body = "nonseq" ->
                 \* raise CZDSError("Unable to parse JSON returned from CZDS")
                 /\ listResult' = "parse_error"
                 /\ ListErrorHandler
                 /\ UNCHANGED <<retries, zonelist, idx, downloadable_zones>>
            [] body = "array" ->
                 \E zonelist_response \in ListResponses(remoteLinks) :
                 \E distinct_list \in DistinctLists(zonelist_response) :
                    /\ msgs' = IF Len(distinct_list) # Len(zonelist_response)
                               THEN SendMsg("Duplicate entries in zonefile list.", TRUE)
                               ELSE msgs
                    /\ downloadable_zones' = Len(distinct_list)
                    /\ zonelist' = distinct_list
                    /\ idx' = 1
                    /\ listResult' = "ok"
                    /\ pc' = "loop"
                    /\ UNCHANGED <<retries, exit_code>>
    /\ UNCHANGED <<run, configResult, authPosts, max_retries, which_zones, remoteLinks, access_token,
                   downloaded_zones, download, chunksRead, files, summary,
                   listGets, gets, outcome, processed, writes>>

----------------------------------------------------------------------------
\* fetch(): the loop over zonelist (lines 234-264).

InLoop == pc = "loop" /\ idx \in 1..Len(zonelist)

\* The loop iteration of the current target is over with the given result.
IterationEnds(result) ==
    /\ outcome' = [outcome EXCEPT ![Zone] = result]
    /\ processed' = [processed EXCEPT ![Zone] = @ + 1]
    /\ download' = NoResponse
    /\ chunksRead' = 0

\* lines 240-241: a CZDSError of fetch_zone is logged and the loop goes on.
ZoneErrorHandler_propagate(result) ==
    /\ IterationEnds(result)
    /\ idx' = idx
    /\ exit_code' = Exited(1)
    /\ pc' = "exit"
ZoneErrorHandler(result) ==
    /\ IterationEnds(result)
    /\ idx' = idx + 1
    /\ exit_code' = exit_code
    /\ pc' = "loop"

\* line 237, condition false: the target is not fetched.
SkipZone ==
    /\ InLoop
    /\ ~Selected(ZoneName)
    /\ idx' = idx + 1
    /\ outcome' = [outcome EXCEPT ![Zone] = "NotSelected"]
    /\ UNCHANGED <<pc, run, configResult, authPosts, max_retries, which_zones, remoteLinks, access_token,
                   retries, downloaded_zones, downloadable_zones, zonelist,
                   download, chunksRead, files, msgs, summary, exit_code,
                   listGets, listResult, gets, response, processed, writes>>

\* fetch_zone, line 198 (get_with_token, line 144): the GET for the current
\* target is sent and answered.
ZoneGet ==
    /\ InLoop
    /\ Selected(ZoneName)
    /\ retries <= max_retries
    /\ gets' = [gets EXCEPT ![Zone] = @ + 1]
    /\ \E resp \in Responses : response' = resp
    /\ pc' = "zone_response"
    /\ UNCHANGED <<run, configResult, authPosts, max_retries, which_zones, remoteLinks, access_token,
                   retries, downloaded_zones, downloadable_zones, zonelist, idx,
                   download, chunksRead, files, msgs, summary, exit_code,
                   listGets, listResult, outcome, processed, writes>>

\* lines 145-157 and 199-221, with the handler of fetch() (lines 238-241):
\* the answer is retried, rejected, or returned as the download.
ZoneResponse ==
    /\ pc = "zone_response"
    /\ response' = NoResponse
    /\ IF GetWithToken(response) = "GetError"
       THEN IF ZoneCeilingReached(retries)
            THEN /\ msgs' = SendMsg("Maximum number of retries reached while trying to obtain zonefiles.", TRUE)
                 /\ ZoneErrorHandler("RetriesExhausted")
                 /\ UNCHANGED retries
            ELSE /\ retries' = retries + 1
                 /\ pc' = "loop"
                 /\ UNCHANGED <<idx, msgs, exit_code, outcome, processed,
                                download, chunksRead>>
       ELSE IF ContentTypeError(response) # "none"
            THEN /\ msgs' = SendMsg(ContentTypeError(response), TRUE)
                 /\ ZoneErrorHandler("ContentType")
                 /\ UNCHANGED retries
            ELSE \* return download
                 /\ download' = response
                 /\ pc' = "open"
                 /\ UNCHANGED <<idx, msgs, exit_code, outcome, processed,
                                chunksRead, retries>>
    /\ UNCHANGED <<run, configResult, authPosts, max_retries, which_zones, remoteLinks, access_token,
                   downloaded_zones, downloadable_zones, zonelist, files,
                   summary, listGets, listResult, gets, writes>>

\* lines 258-264: any exception while storing the zone ends the run.
WriteErrorHandler_exit0 ==
    /\ msgs' = SendMsg("Failed to write zone", TRUE)
    /\ exit_code' = Exited(0)
    /\ pc' = "exit"
    /\ outcome' = [outcome EXCEPT ![Zone] = "WriteFailed"]
    /\ processed' = [processed EXCEPT ![Zone] = @ + 1]
WriteErrorHandler ==
    /\ FatalExit("Failed to write zone")
    /\ outcome' = [outcome EXCEPT ![Zone] = "WriteFailed"]
    /\ processed' = [processed EXCEPT ![Zone] = @ + 1]

\* line 243: out_name = '{}/{}.gz'.format(self.directory, zone_name)
OutName == ZoneName

\* line 251: open(out_name, 'wb') creates the file or truncates it.
OpenOutFile ==
    /\ pc = "open"
    /\ \/ /\ files' = [files EXCEPT ![OutName] = << >>]
          /\ writes' = writes + 1
          /\ pc' = "stream"
          /\ UNCHANGED <<msgs, exit_code, outcome, processed>>
       \/ /\ WriteErrorHandler
          /\ UNCHANGED <<files, writes>>
    /\ UNCHANGED <<run, configResult, authPosts, max_retries, which_zones, remoteLinks, access_token,
                   retries, downloaded_zones, downloadable_zones, zonelist, idx,
                   response, download, chunksRead, summary, listGets,
                   listResult, gets>>

\* lines 253-255: the next chunk of the body is read, written and flushed;
\* reading (the stream breaks) or writing (the disk is full) may raise.
WriteChunk ==
    /\ pc = "stream"
    /\ chunksRead < NumChunks
    /\ \/ /\ files' = [files EXCEPT ![OutName] = Append(@, Payload(Zone)[chunksRead + 1])]
          /\ chunksRead' = chunksRead + 1
          /\ UNCHANGED <<pc, msgs, exit_code, outcome, processed>>
       \/ /\ WriteErrorHandler
          /\ UNCHANGED <<files, chunksRead>>
    /\ UNCHANGED <<run, configResult, authPosts, max_retries, which_zones, remoteLinks, access_token,
                   retries, downloaded_zones, downloadable_zones, zonelist, idx,
                   response, download, summary, listGets, listResult, gets,
                   writes>>

\* line 257: the body is exhausted, the file is closed, the iteration ends.
CloseOutFile ==
    /\ pc = "stream"
    /\ chunksRead = NumChunks
    /\ IterationEnds("Downloaded")
    /\ idx' = idx + 1
    /\ pc' = "loop"
    /\ UNCHANGED <<run, configResult, authPosts, max_retries, which_zones, remoteLinks, access_token,
                   retries, downloaded_zones, downloadable_zones, zonelist,
                   response, files, msgs, summary, exit_code, listGets,
                   listResult, gets, writes>>

\* main(), lines 282-287: fetch() returned; the summary is logged and mailed.
Complete ==
    /\ pc = "loop"
    /\ idx > Len(zonelist)
    /\ summary' = <<downloaded_zones, downloadable_zones>>
    /\ msgs' = SendMsg("Downloaded zonefiles", FALSE)
    /\ exit_code' = Exited(0)
    /\ pc' = "done"
    /\ UNCHANGED <<run, configResult, authPosts, max_retries, which_zones, remoteLinks, access_token,
                   retries, downloaded_zones, downloadable_zones, zonelist, idx,
                   response, download, chunksRead, files, listGets, listResult,
                   gets, outcome, processed, writes>>

\* The first run stored every selected target.
CleanRun == \A u \in SelectedTargets : outcome[u] = "Downloaded"

\* After a clean first run the operator starts the program a second time on
\* the same day: a new process (main, __init__) on the same output directory,
\* with the same configuration and an unchanged remote.
Rerun ==
    /\ pc = "done"
    /\ run = 1
    /\ CleanRun
    /\ run' = 2
    /\ pc' = "load_config"
    /\ configResult' = "pending"
    /\ authPosts' = 0
    /\ access_token' = "None"
    /\ retries' = 0
    /\ downloaded_zones' = 0
    /\ downloadable_zones' = 0
    /\ zonelist' = << >>
    /\ idx' = 0
    /\ download' = NoResponse
    /\ chunksRead' = 0
    /\ msgs' = {}
    /\ summary' = NoSummary
    /\ exit_code' = Running
    /\ listGets' = 0
    /\ listResult' = "pending"
    /\ gets' = [u \in URLS |-> 0]
    /\ response' = NoResponse
    /\ outcome' = [u \in URLS |-> "none"]
    /\ processed' = [u \in URLS |-> 0]
    /\ writes' = 0
    /\ UNCHANGED <<max_retries, which_zones, remoteLinks, files>>

Next ==
    \/ LoadConfig
    \/ Authenticate
    \/ ListGet
    \/ ListResponse
    \/ SkipZone
    \/ ZoneGet
    \/ ZoneResponse
    \/ OpenOutFile
    \/ WriteChunk
    \/ CloseOutFile
    \/ Complete
    \/ Rerun

Spec == Init /\ [][Next]_vars

\* The single thread always takes its next step.
FairSpec == InitNoDuplicates /\ [][Next]_vars /\ WF_vars(Next)

----------------------------------------------------------------------------
\* Properties

\* The allow-list as the configuration states it: "all", or the names listed.
AllowListed(u) ==
    \/ which_zones.kind = "str" /\ which_zones.val = "all"
    \/ which_zones.kind = "list" /\ ZoneNameOf(u) \in which_zones.names

FailureMsgs == {m \in msgs : m.fail}
SuccessMsgs == {m \in msgs : ~m.fail}
WriteFailed == \E u \in URLS : outcome[u] = "WriteFailed"

\* C1: in every reachable state the file at a zone's final output path either
\* does not exist or holds the complete payload the server serves for it.
C1_FinalFileCompleteOrAbsent ==
    \A n \in ZoneNames :
        \/ files[n] = NoFile
        \/ \E u \in URLS : ZoneNameOf(u) = n /\ files[n] = Payload(u)

\* C2: a second run after a clean first run, with the remote unchanged, opens
\* no zone file for writing.
C2_SecondRunWritesNothing == run = 2 => writes = 0

\* C3: when every GET of the list endpoint fails, get_zonefiles_list raises
\* after exactly max_retries + 1 GETs: while it is still trying it has issued
\* one GET per retry counted and at most max_retries + 1, and it gives up with
\* the counter at max_retries, never before.
C3_ListRetryCeiling ==
    /\ listGets <= max_retries + 1
    /\ pc = "get_zonefiles_list" => listGets = retries /\ retries <= max_retries
    /\ pc = "zonelist_response" => listGets = retries + 1
    /\ listResult = "exhausted" =>
          /\ listGets = max_retries + 1
          /\ retries = max_retries
          /\ pc = "exit"

C3_Witness ==
    /\ listResult = "exhausted"
    /\ max_retries >= 1
    /\ listGets = max_retries + 1

\* C4: a target is given up for exhausted retries only after max_retries
\* retries of its own GET, that is max_retries + 1 GETs for that target.
C4_RetriesPerZone ==
    \A u \in URLS : outcome[u] = "RetriesExhausted" => gets[u] = max_retries + 1

C6_ListMandatory ==
    listResult = "exhausted" =>
        /\ pc = "exit"
        /\ exit_code = Exited(1)
        /\ FailureMsgs # {}
        /\ SuccessMsgs = {}
        /\ summary = NoSummary
        /\ \A u \in URLS : gets[u] = 0 /\ outcome[u] = "none"
        /\ writes = 0

C6_Witness ==
    /\ listResult = "exhausted"
    /\ pc = "exit"
    /\ Served # {}

\* C7: get_zonefiles_list returns each distinct entry of the list response
\* exactly once, and with allow-list "all" a completed loop has processed each
\* distinct entry exactly once.
C7_Deduplication ==
    /\ listResult = "ok" =>
          /\ Range(zonelist) = Served
          /\ \A i, j \in 1..Len(zonelist) : zonelist[i] = zonelist[j] => i = j
          /\ downloadable_zones = Cardinality(Served)
    /\ \A u \in URLS : processed[u] <= 1
    /\ (pc = "done" /\ which_zones.kind = "str") =>
          \A u \in URLS : processed[u] = IF u \in Served THEN 1 ELSE 0

C7_Witness ==
    /\ pc = "done"
    /\ which_zones.kind = "str"
    /\ \E a, b \in URLS : remoteLinks[a] = 2 /\ remoteLinks[b] = 1
    /\ Cardinality({u \in URLS : processed[u] = 1}) = 2

\* C8: a 200 answer whose Content-Type is missing or is not application/x-gzip
\* ends the target's iteration with a content-type error message and leaves
\* the output directory untouched; only a gzip answer is ever being stored.
C8_ContentTypeRejected ==
    /\ [](pc \in {"open", "stream"} => download.status = 200 /\ download.ctype = GZIP)
    /\ [][ (pc = "zone_response" /\ response.status = 200 /\ response.ctype # GZIP)
           => /\ files' = files
              /\ writes' = writes
              /\ outcome'[Zone] = "ContentType"
              /\ pc' = "loop"
              /\ idx' = idx + 1
              /\ \E m \in msgs' : m.fail /\ m.text \in {"did not return a content type",
                                                        "Unsupported content type"} ]_vars

C8_Witness ==
    \E u \in URLS :
        /\ outcome[u] = "ContentType"
        /\ files[ZoneNameOf(u)] = NoFile
        /\ \E m \in msgs : m.text = "Unsupported content type"

\* C9: a zone GET is issued only for allow-listed targets, every allow-listed
\* target the loop has passed has had a GET, and a target off the allow-list
\* has no GET and no output file.
C9_AllowListFiltering ==
    /\ \A u \in URLS : gets[u] > 0 => AllowListed(u) /\ u \in Range(zonelist)
    /\ \A i \in 1..Len(zonelist) :
          (i < idx /\ AllowListed(zonelist[i])) => gets[zonelist[i]] > 0
    /\ \A u \in URLS :
          ~AllowListed(u) => outcome[u] \in {"none", "NotSelected"}
                             /\ files[ZoneNameOf(u)] = NoFile

C9_Witness ==
    /\ pc = "done"
    /\ which_zones.kind = "list"
    /\ \E u, v \in Range(zonelist) :
          /\ AllowListed(u) /\ gets[u] > 0
          /\ ~AllowListed(v) /\ gets[v] = 0 /\ outcome[v] = "NotSelected"

\* C10: with three names on the allow-list and a list of two matching entries
\* and one unrelated entry, both matching zones stored, the summary reports 2
\* downloaded of 2.
C10_Scenario ==
    /\ which_zones.kind = "list"
    /\ Cardinality(which_zones.names) = 3
    /\ Cardinality(Served) = 3
    /\ \A u \in Served : remoteLinks[u] = 1
    /\ Cardinality({u \in Served : AllowListed(u)}) = 2
    /\ \A u \in Served : AllowListed(u) => outcome[u] = "Downloaded"

C10_SummaryTwoOfTwo ==
    (pc = "done" /\ C10_Scenario) => summary = <<2, 2>>

\* How a run can have failed before or around the loop.
ConfigLoadFailed == configResult = "unreadable"
ConfigItemMissing == configResult = "missing_item"
AuthFailed == authPosts = 1 /\ access_token = "None"

C12_FatalExitAnnounced == pc = "exit" => FailureMsgs # {}

\* C13: authentication is posted at most once; a GET of the list or of a zone
\* is only issued with the token of a successful authentication; and a failed
\* authentication ends the run with a failure message and exit status 1, the
\* token unset, no GET issued and no summary.
C13_AuthenticateOnce ==
    /\ authPosts <= 1
    /\ access_token = "token" => authPosts = 1
    /\ (listGets > 0 \/ \E u \in URLS : gets[u] > 0) =>
          authPosts = 1 /\ access_token = "token"
    /\ AuthFailed =>
          /\ pc = "exit"
          /\ exit_code = Exited(1)
          /\ [fail |-> TRUE, text |-> "czds_authenticate failed"] \in msgs
          /\ SuccessMsgs = {}
          /\ summary = NoSummary
          /\ listGets = 0
          /\ \A u \in URLS : gets[u] = 0

C13_Witness ==
    /\ AuthFailed
    /\ pc = "exit"
    /\ Served # {}

\* C14: a zone whose file in the output directory has the size the server
\* serves for it is up to date and no GET is issued for it. The second run
\* finds the files the first run completed, untouched and of the served size.
C14_UpToDateZoneNotFetched ==
    \A u \in URLS :
        ( /\ run = 2
          /\ files[ZoneNameOf(u)] # NoFile
          /\ Len(files[ZoneNameOf(u)]) = Len(Payload(u))
          /\ writes = 0 )
        => gets[u] = 0

\* C15: the downloaded count of the completion summary is the number of zones
\* fetched and completely written during the run.
C15_DownloadedCountTallied ==
    pc = "done" =>
        summary[1] = Cardinality({u \in URLS : outcome[u] = "Downloaded"})

\* C16: a target is given up, whatever the kind of fetch error (status,
\* transport, Content-Type), only when no retry remains.
C16_AllErrorKindsRetried ==
    \A u \in URLS :
        outcome[u] \in {"RetriesExhausted", "ContentType"} =>
            retries = max_retries

\* C17: a 200 list response whose body is not a JSON sequence is not retried
\* and ends the run with a failure message and exit status 1, no zone fetched.
C17_ListParseFailureFatal ==
    listResult \in {"parse_error", "crash"} =>
        /\ pc = "exit"
        /\ exit_code = Exited(1)
        /\ FailureMsgs # {}
        /\ SuccessMsgs = {}
        /\ listGets = retries + 1
        /\ \A u \in URLS : gets[u] = 0

\* C18: when opening the output file or writing a chunk fails, the run ends
\* with a failure message and exit status 1, no completion summary and no
\* success message, and no target later in the list is fetched or given a
\* result.
C18_WriteFailureFatal ==
    WriteFailed =>
        /\ pc = "exit"
        /\ exit_code = Exited(1)
        /\ [fail |-> TRUE, text |-> "Failed to write zone"] \in msgs
        /\ SuccessMsgs = {}
        /\ summary = NoSummary
        /\ idx \in 1..Len(zonelist)
        /\ \A k \in 1..Len(zonelist) :
              /\ outcome[zonelist[k]] = "WriteFailed" <=> k = idx
              /\ k > idx => /\ gets[zonelist[k]] = 0
                            /\ outcome[zonelist[k]] = "none"
                            /\ processed[zonelist[k]] = 0

C18_Witness ==
    /\ WriteFailed
    /\ pc = "exit"
    /\ \E k \in 1..Len(zonelist) : k > idx /\ AllowListed(zonelist[k])

\* A GET of the list or of a zone has been answered with a failure.
FailedGetAnswered ==
    /\ pc \in {"zonelist_response", "zone_response"}
    /\ response.status # 200

\* The failed GET is given up: get_zonefiles_list or fetch_zone raises.
GivenUp ==
    \/ pc = "zonelist_response" /\ listResult' = "exhausted"
    \/ pc = "zone_response" /\ outcome'[Zone] = "RetriesExhausted"

\* C19: within a run the retry counter stays within 0..max_retries, never
\* decreases, and changes only when a failed GET of the list or of a zone is
\* handled: the failure increments it by one below the ceiling, and at the
\* ceiling leaves it unchanged and raises.
C19_RetryCounter ==
    /\ [](retries \in 0..max_retries)
    /\ [][run' = run =>
            /\ retries' >= retries
            /\ retries' # retries => FailedGetAnswered
            /\ FailedGetAnswered =>
                  IF retries = max_retries
                  THEN retries' = retries /\ GivenUp
                  ELSE retries' = retries + 1 /\ ~GivenUp]_vars

C19_Witness ==
    /\ max_retries >= 1
    /\ retries = max_retries
    /\ listGets > 1
    /\ \E u \in URLS : outcome[u] = "RetriesExhausted" /\ gets[u] >= 2

RECURSIVE SumGets(_)
SumGets(S) ==
    IF S = {} THEN 0
    ELSE LET u == CHOOSE x \in S : TRUE IN gets[u] + SumGets(S \ {u})

\* The authenticated GET requests issued so far in this run.
TotalGets == listGets + SumGets(URLS)

AllowListedTargets == {u \in Served : AllowListed(u)}

\* C20: a run issues at most 1 + (number of distinct allow-listed targets) +
\* max_retries GET requests, and every run ends, with the completion summary
\* or with a fatal exit.
C20_BoundedWorkAndTermination ==
    /\ [](TotalGets <= 1 + Cardinality(AllowListedTargets) + max_retries)
    /\ (pc = "load_config") ~> (pc \in {"done", "exit"})

C20_Witness ==
    /\ pc = "done"
    /\ summary # NoSummary
    /\ max_retries >= 1
    /\ Cardinality(AllowListedTargets) >= 2
    /\ TotalGets = 1 + Cardinality(AllowListedTargets) + max_retries

====
